---------------------------- MODULE Spec2Model ----------------------------
(***************************************************************************)
(* Model of the two serverless endpoints of INJTRACKER:                    *)
(*   - api/point.js : per-address snapshot store with sanitizePayload      *)
(*   - api/track.js : analytics reducer over the shared sessions document  *)
(*                                                                         *)
(* JavaScript values are tagged records, one field per JS type, so that    *)
(* values of different types can be compared:                              *)
(*   [undef |-> TRUE]  undefined / absent property                         *)
(*   [null  |-> TRUE]  null                                                *)
(*   [nan   |-> TRUE]  NaN (only as a result of Number())                  *)
(*   [num   |-> n]     a finite number (an integer here)                   *)
(*   [str   |-> s]     a string, s a sequence of one-character strings     *)
(*   [arr   |-> a]     an array, a a sequence of values                    *)
(*   [obj   |-> r]     an object, r a record of values                     *)
(* Values produced by the coercers toNum / toStr are plain TLA+ integers   *)
(* and character sequences.                                                *)
(***************************************************************************)
EXTENDS Integers, Sequences, FiniteSets, TLC

VARIABLES
    p,          \* sanitizePayload: the parsed request body handed to it
    out,        \* sanitizePayload: the document it returned (NoDoc before the call)
    cleaned,    \* sanitizePayload: its local cleaned = p.events.map(sanitizeEvent)
    now,        \* the last value Date.now() returned
    blobs,      \* the blob store: pathname -> text of the blob
    posted,     \* address -> the document of the last POST for it answered 200
    sessionsDoc, \* the blob analytics/sessions.json: the array it holds, or NoDoc
    namesDoc,   \* the blob analytics/names.json: the stored object, or NoDoc
    upload,     \* the body of a snapshot POST being read from the request stream
    inflight,   \* the tracking requests being handled: what each has read so far
    resp        \* the response to the last request

vars == <<p, out, cleaned, now, blobs, posted, upload, sessionsDoc, namesDoc, inflight, resp>>

trackVars == <<sessionsDoc, namesDoc, inflight>>

sanVars == <<p, out, cleaned>>

pointVars == <<blobs, posted, upload>>

(***************************************************************************)
(* Program constants.  MAX_POINTS and MAX_EVENTS are 2400 and 1200 in the  *)
(* source; the model keeps their role and scales their value so that       *)
(* arrays of MAX_POINTS+1 elements can be enumerated.                      *)
(***************************************************************************)
MAX_POINTS == 2
MAX_EVENTS == 2

(***************************************************************************)
(* JavaScript values                                                       *)
(***************************************************************************)
Undef == [undef |-> TRUE]
JNull == [null |-> TRUE]
NaN == [nan |-> TRUE]
JNum(n) == [num |-> n]
JStr(s) == [str |-> s]
JArr(a) == [arr |-> a]
JObj(r) == [obj |-> r]

IsUndef(x) == "undef" \in DOMAIN x
IsNull(x) == "null" \in DOMAIN x
IsNum(x) == "num" \in DOMAIN x
IsStr(x) == "str" \in DOMAIN x
IsArr(x) == "arr" \in DOMAIN x
IsObj(x) == "obj" \in DOMAIN x

\* x?.k : the property k of x, undefined when x is no object or has no such property
Get(x, k) == IF IsObj(x) /\ k \in DOMAIN x.obj THEN x.obj[k] ELSE Undef

\* JavaScript truthiness, as used by if (x) and by x || y
Truthy(x) ==
    CASE IsNum(x) -> x.num # 0
      [] IsStr(x) -> x.str # <<>>
      [] IsArr(x) -> TRUE
      [] IsObj(x) -> TRUE
      [] OTHER -> FALSE

\* x || y
Or(x, y) == IF Truthy(x) THEN x ELSE y

\* Array.isArray(x)
IsArray(x) == IsArr(x)

(***************************************************************************)
(* Strings and numbers                                                     *)
(***************************************************************************)
Digits == <<"0", "1", "2", "3", "4", "5", "6", "7", "8", "9">>

IsDigit(c) == \E i \in 1..10 : Digits[i] = c

DigitVal(c) == (CHOOSE i \in 1..10 : Digits[i] = c) - 1

IsWs(c) == c = " "

RECURSIVE NatToStr(_)
NatToStr(n) == IF n < 10 THEN <<Digits[n + 1]>> ELSE NatToStr(n \div 10) \o <<Digits[(n % 10) + 1]>>

\* String(n) for an integer n
NumToStr(n) == IF n < 0 THEN <<"-">> \o NatToStr(0 - n) ELSE NatToStr(n)

RECURSIVE DigitsToNat(_)
DigitsToNat(s) == IF s = <<>> THEN 0 ELSE 10 * DigitsToNat(SubSeq(s, 1, Len(s) - 1)) + DigitVal(s[Len(s)])

\* Number(s) for a string of the model's alphabet: "" is 0, a digit string is its
\* value, "-" followed by digits is the negative value, anything else is NaN
StrToNumber(s) ==
    CASE s = <<>> -> JNum(0)
      [] \A i \in 1..Len(s) : IsDigit(s[i]) -> JNum(DigitsToNat(s))
      [] Len(s) > 1 /\ s[1] = "-" /\ (\A i \in 2..Len(s) : IsDigit(s[i])) -> JNum(0 - DigitsToNat(Tail(s)))
      [] OTHER -> NaN

\* Number(x)
ToNumber(x) ==
    CASE IsNum(x) -> x
      [] IsNull(x) -> JNum(0)
      [] IsStr(x) -> StrToNumber(x.str)
      [] IsArr(x) /\ x.arr = <<>> -> JNum(0)
      [] OTHER -> NaN

\* String(x)
ToStringJS(x) ==
    CASE IsStr(x) -> x.str
      [] IsNum(x) -> NumToStr(x.num)
      [] IsNull(x) -> <<"n", "u", "l", "l">>
      [] IsUndef(x) -> <<"u", "n", "d", "e", "f", "i", "n", "e", "d">>
      [] IsArr(x) /\ x.arr = <<>> -> <<>>
      [] OTHER -> <<"[", "o", "b", "j", "e", "c", "t", " ", "O", "b", "j", "e", "c", "t", "]">>

\* s.slice(0, n)
Prefix(s, n) == IF Len(s) > n THEN SubSeq(s, 1, n) ELSE s

\* s.replace(/\s+/g, "_") : every maximal run of whitespace becomes one "_"
RECURSIVE ReplaceWs(_)
ReplaceWs(s) ==
    IF s = <<>> THEN <<>>
    ELSE IF IsWs(s[1])
         THEN IF Len(s) > 1 /\ IsWs(s[2]) THEN ReplaceWs(Tail(s)) ELSE <<"_">> \o ReplaceWs(Tail(s))
         ELSE <<s[1]>> \o ReplaceWs(Tail(s))

(***************************************************************************)
(* api/point.js: the coercers                                              *)
(***************************************************************************)
\* clampArray keeping the first max elements instead of the last
clampArrayHead(arr, max) ==
    IF ~IsArray(arr) THEN <<>>
    ELSE IF Len(arr.arr) <= max THEN arr.arr
    ELSE SubSeq(arr.arr, 1, max)

\* arr.slice(arr.length - max) when longer than max, [] when no array
clampArray(arr, max) ==
    IF ~IsArray(arr) THEN <<>>
    ELSE IF Len(arr.arr) <= max THEN arr.arr
    ELSE SubSeq(arr.arr, Len(arr.arr) - max + 1, Len(arr.arr))

toNum(x) == LET n == ToNumber(x) IN IF IsNum(n) THEN n.num ELSE 0

toStr(x, maxLen) ==
    LET s == ToStringJS(IF IsUndef(x) \/ IsNull(x) THEN JStr(<<>>) ELSE x)
    IN IF Len(s) > maxLen THEN Prefix(s, maxLen) ELSE s

S_event == <<"e", "v", "e", "n", "t">>
S_done == <<"d", "o", "n", "e">>
S_StakeUpdate == <<"S", "t", "a", "k", "e", " ", "u", "p", "d", "a", "t", "e">>

\* sanitizeEvent(e), where t is what Date.now() returns if it is called
sanitizeEvent(e, t) ==
    LET n == toNum(Get(e, "ts"))
        ts == IF n # 0 THEN n ELSE t
        kind == toStr(Or(Or(Get(e, "kind"), Get(e, "type")), JStr(S_event)), 32)
        title == toStr(Or(Get(e, "title"), JStr(kind)), 64)
        detail == toStr(Or(Or(Get(e, "detail"), Get(e, "desc")), JStr(<<>>)), 220)
        value == toNum(Get(e, "value"))
        dir == toStr(Or(Get(e, "dir"), JStr(<<>>)), 8)
        status == toStr(Or(Get(e, "status"), JStr(S_done)), 12)
        id == toStr(Or(Get(e, "id"), JStr(ReplaceWs(NumToStr(ts) \o <<":">> \o kind \o <<":">> \o title))), 120)
    IN [id |-> id, ts |-> ts, kind |-> kind, title |-> title, detail |-> detail,
        value |-> value, dir |-> dir, status |-> status]

\* whether sanitizeEvent(e) calls Date.now()
ReadsClock(e) == toNum(Get(e, "ts")) = 0

\* a.slice(-n) for n >= 0: the last n elements, and the whole array when n is 0
\* (-0 is 0, so slice(-0) is slice(0))
SliceLast(a, n) ==
    IF n = 0 THEN a
    ELSE IF n >= Len(a) THEN a
    ELSE SubSeq(a, Len(a) - n + 1, Len(a))

\* while (a.length < n) a.unshift(d)
RECURSIVE UnshiftTo(_, _, _)
UnshiftTo(a, n, d) == IF Len(a) < n THEN UnshiftTo(<<d>> \o a, n, d) ELSE a

MapNum(a) == [i \in 1..Len(a) |-> toNum(a[i])]

MapStr(a, maxLen) == [i \in 1..Len(a) |-> toStr(a[i], maxLen)]

\* the stake block of sanitizePayload
SanitizeStake(s) ==
    LET labels == MapStr(clampArray(Get(s, "labels"), MAX_POINTS), 48)
        data == MapNum(clampArray(Get(s, "data"), MAX_POINTS))
        moves == MapNum(clampArray(Get(s, "moves"), MAX_POINTS))
        types == MapStr(clampArray(Get(s, "types"), MAX_POINTS), 40)
        n == Len(data)
    IN [labels |-> SliceLast(labels, n),
        data |-> data,
        moves |-> UnshiftTo(SliceLast(moves, n), n, 0),
        types |-> UnshiftTo(SliceLast(types, n), n, S_StakeUpdate)]

\* the wd block of sanitizePayload
SanitizeWd(w) ==
    LET labels == MapStr(clampArray(Get(w, "labels"), MAX_POINTS), 48)
        values == MapNum(clampArray(Get(w, "values"), MAX_POINTS))
        times == MapNum(clampArray(Get(w, "times"), MAX_POINTS))
        n == Len(values)
    IN [labels |-> SliceLast(labels, n),
        values |-> values,
        times |-> UnshiftTo(SliceLast(times, n), n, 0)]

\* the nw block of sanitizePayload
SanitizeNw(w) ==
    LET times == MapNum(clampArray(Get(w, "times"), MAX_POINTS))
        usd == MapNum(clampArray(Get(w, "usd"), MAX_POINTS))
        inj == MapNum(clampArray(Get(w, "inj"), MAX_POINTS))
        n == Len(times)
    IN [times |-> times,
        usd |-> UnshiftTo(SliceLast(usd, n), n, 0),
        inj |-> UnshiftTo(SliceLast(inj, n), n, 0)]

\* MapSet keeping the value already stored under the id
MapSetKeepFirst(m, ev) ==
    IF \E i \in 1..Len(m) : m[i].id = ev.id THEN m ELSE Append(m, ev)

\* map.set(ev.id, ev) on a Map kept as the sequence of its values in insertion
\* order: an existing key keeps its position and takes the new value
MapSet(m, ev) ==
    IF \E i \in 1..Len(m) : m[i].id = ev.id
    THEN [i \in 1..Len(m) |-> IF m[i].id = ev.id THEN ev ELSE m[i]]
    ELSE Append(m, ev)

\* for (const ev of evs) map.set(ev.id, ev), from the map m
RECURSIVE MapSetAll(_, _)
MapSetAll(m, evs) ==
    IF evs = <<>> THEN m ELSE MapSetAll(MapSet(m, Head(evs)), Tail(evs))

\* the comparator of the sort: (a.ts || 0) - (b.ts || 0)
CompareTs(a, b) == (IF a.ts # 0 THEN a.ts ELSE 0) - (IF b.ts # 0 THEN b.ts ELSE 0)

\* InsertStable placing x in front of the elements that compare equal to it
InsertBeforeEqual(s, x) ==
    LET k == Cardinality({i \in 1..Len(s) : CompareTs(s[i], x) < 0})
    IN SubSeq(s, 1, k) \o <<x>> \o SubSeq(s, k + 1, Len(s))

\* x inserted into the sorted sequence s behind every element that does not
\* compare greater than it
InsertStable(s, x) ==
    LET k == Cardinality({i \in 1..Len(s) : CompareTs(s[i], x) <= 0})
    IN SubSeq(s, 1, k) \o <<x>> \o SubSeq(s, k + 1, Len(s))

\* Array.prototype.sort with CompareTs: a stable sort (ECMAScript 2019)
RECURSIVE SortByTs(_)
SortByTs(a) ==
    IF a = <<>> THEN <<>> ELSE InsertStable(SortByTs(SubSeq(a, 1, Len(a) - 1)), a[Len(a)])

\* The clock readings of the events of one call: rs[i] is what Date.now()
\* returns inside sanitizeEvent of the i-th event
Cleaned(evs, rs) == [i \in 1..Len(evs) |-> sanitizeEvent(evs[i], rs[i])]

\* the events block of sanitizePayload
SanitizeEvents(evs, rs) ==
    clampArray(JArr(SortByTs(MapSetAll(<<>>, Cleaned(evs, rs)))), MAX_EVENTS)

EmptyStake == [labels |-> <<>>, data |-> <<>>, moves |-> <<>>, types |-> <<>>]
EmptyWd == [labels |-> <<>>, values |-> <<>>, times |-> <<>>]
EmptyNw == [times |-> <<>>, usd |-> <<>>, inj |-> <<>>]

\* sanitizePayload(pl): rs are the clock readings of its events, t the last
\* reading (out.t = Date.now())
sanitizePayload(pl, rs, t) ==
    [v |-> 2,
     t |-> t,
     stake |-> IF Truthy(Get(pl, "stake")) THEN SanitizeStake(Get(pl, "stake")) ELSE EmptyStake,
     wd |-> IF Truthy(Get(pl, "wd")) THEN SanitizeWd(Get(pl, "wd")) ELSE EmptyWd,
     nw |-> IF Truthy(Get(pl, "nw")) THEN SanitizeNw(Get(pl, "nw")) ELSE EmptyNw,
     events |-> IF IsArray(Get(pl, "events")) THEN SanitizeEvents(Get(pl, "events").arr, rs) ELSE <<>>]

(***************************************************************************)
(* Inputs of sanitizePayload                                               *)
(***************************************************************************)
\* the longest events list a request carries
MaxEvLen == 3

\* by how much the clock moves on between two calls of Date.now(): it stays
\* or it advances
Ticks == {0, 1}

\* the longest array a request carries: one more than the retained window
MaxArrLen == MAX_POINTS + 1

NoDoc == [none |-> TRUE]

\* a string of n characters c
Rep(c, n) == [i \in 1..n |-> c]

\* array elements as a client may send them: numbers, or a mix of numeric
\* strings, null and an overlong text
ElemA(i) == JNum(10 + i)

ElemB(i) ==
    CASE i % 3 = 1 -> JStr(<<"7">>)
      [] i % 3 = 2 -> JNull
      [] OTHER -> JStr(Rep("x", 50))

ArrIn ==
    {Undef, JArr(<<>>)}
    \cup {JArr([i \in 1..k |-> ElemA(i)]) : k \in 1..MaxArrLen}
    \cup {JArr([i \in 1..k |-> ElemB(i)]) : k \in 1..MaxArrLen}

\* what a series property of the payload may hold besides an object
NonObj == {Undef, JNull, JNum(5)}

StakeIn ==
    NonObj \cup {JObj([labels |-> l, data |-> d, moves |-> m, types |-> t]) : l \in ArrIn, d \in ArrIn, m \in ArrIn, t \in ArrIn}

WdIn ==
    NonObj \cup {JObj([labels |-> l, values |-> v, times |-> t]) : l \in ArrIn, v \in ArrIn, t \in ArrIn}

NwIn ==
    NonObj \cup {JObj([times |-> t, usd |-> u, inj |-> i]) : t \in ArrIn, u \in ArrIn, i \in ArrIn}

ArrOf(k) == JArr([i \in 1..k |-> ElemA(i)])

\* one desynchronised sample of each section
StakeOne == JObj([labels |-> ArrOf(3), data |-> ArrOf(1), moves |-> Undef, types |-> ArrOf(2)])

WdOne == JObj([labels |-> ArrOf(1), values |-> ArrOf(2), times |-> ArrOf(3)])

NwOne == JObj([times |-> ArrOf(2), usd |-> Undef, inj |-> ArrOf(3)])

EventsOne == JArr(<<JNull>>)

\* raw events: with and without id, with and without ts, the same id with
\* different field values, a title holding whitespace, and null
RawEvents ==
    {JObj([ts |-> JNum(5), id |-> JStr(<<"a">>), value |-> JNum(1)]),
     JObj([ts |-> JNum(5), id |-> JStr(<<"a">>), value |-> JNum(2)]),
     JObj([ts |-> JNum(3), id |-> JStr(<<"b">>)]),
     JObj([ts |-> JNum(5), id |-> JStr(<<"c">>)]),
     JObj([ts |-> JStr(<<"5">>), type |-> JStr(<<"t", "x">>), title |-> JStr(<<"x", " ", " ", "y">>)]),
     JNull}

RECURSIVE SeqsUpTo(_, _)
SeqsUpTo(S, n) ==
    IF n = 0 THEN {<<>>}
    ELSE LET shorter == SeqsUpTo(S, n - 1)
         IN shorter \cup {Append(q, x) : q \in {r \in shorter : Len(r) = n - 1}, x \in S}

EventsIn == {Undef, JNull} \cup {JArr(q) : q \in SeqsUpTo(RawEvents, MaxEvLen)}

Payload(s, w, n, e) == JObj([stake |-> s, wd |-> w, nw |-> n, events |-> e])

\* the request bodies: one section ranges over all of its inputs while the
\* others are all absent or all the sample, and bodies that are no object
Payloads ==
    {Payload(s, Undef, Undef, Undef) : s \in StakeIn}
    \cup {Payload(s, WdOne, NwOne, EventsOne) : s \in StakeIn}
    \cup {Payload(Undef, w, Undef, Undef) : w \in WdIn}
    \cup {Payload(StakeOne, w, NwOne, EventsOne) : w \in WdIn}
    \cup {Payload(Undef, Undef, n, Undef) : n \in NwIn}
    \cup {Payload(StakeOne, WdOne, n, EventsOne) : n \in NwIn}
    \cup {Payload(Undef, Undef, Undef, e) : e \in EventsIn}
    \cup {Payload(StakeOne, WdOne, NwOne, e) : e \in EventsIn}
    \cup {JNull, JNum(5)}

EventsOf(pl) == IF IsArray(Get(pl, "events")) THEN Get(pl, "events").arr ELSE <<>>

\* The readings of a clock that stood at t0, one per event: the clock moves on
\* by a tick before each event that reads it
RECURSIVE Readings(_, _, _)
Readings(evs, t0, ticks) ==
    IF evs = <<>> THEN <<>>
    ELSE LET t == IF ReadsClock(Head(evs)) THEN t0 + Head(ticks) ELSE t0
         IN <<t>> \o Readings(Tail(evs), t, Tail(ticks))

Last(s, d) == IF s = <<>> THEN d ELSE s[Len(s)]

TickSeqs(evs) ==
    {q \in [1..Len(evs) -> Ticks] : \A i \in 1..Len(evs) : ~ReadsClock(evs[i]) => q[i] = 0}

(***************************************************************************)
(* sanitizePayload as a state machine: a body is drawn, then sanitized     *)
(***************************************************************************)
InitSanitize ==
    /\ p \in Payloads
    /\ out = NoDoc
    /\ cleaned = <<>>
    /\ now = 8
    /\ blobs = <<>>
    /\ posted = <<>>
    /\ upload = [phase |-> "idle"]
    /\ sessionsDoc = NoDoc
    /\ namesDoc = NoDoc
    /\ inflight = <<>>
    /\ resp = [status |-> 0]

Sanitize ==
    /\ out = NoDoc
    /\ \E ticks \in TickSeqs(EventsOf(p)), last \in Ticks :
          LET rs == Readings(EventsOf(p), now, ticks)
              t == Last(rs, now) + last
          IN /\ out' = sanitizePayload(p, rs, t)
             /\ cleaned' = Cleaned(EventsOf(p), rs)
             /\ now' = t
    /\ UNCHANGED <<p, pointVars, trackVars, resp>>

NextSanitize == Sanitize

SpecSanitize == InitSanitize /\ [][NextSanitize]_vars

(***************************************************************************)
(* api/point.js: the handler                                               *)
(***************************************************************************)
MAX_BODY_BYTES == 220000

\* the last value the clock of the model takes
MaxClock == 9

Lower == {"a", "b", "c", "d", "e", "f", "g", "h", "i", "j", "k", "l", "m",
          "n", "o", "p", "q", "r", "s", "t", "u", "v", "w", "x", "y", "z"}

Upper == {"A", "B", "C", "D", "E", "F", "G", "H", "I", "J", "K", "L", "M",
          "N", "O", "P", "Q", "R", "S", "T", "U", "V", "W", "X", "Y", "Z"}

IsAlnum(c) == c \in Lower \/ c \in Upper \/ IsDigit(c)

\* s.trim()
RECURSIVE TrimLeft(_)
TrimLeft(s) == IF s # <<>> /\ IsWs(s[1]) THEN TrimLeft(Tail(s)) ELSE s

RECURSIVE TrimRight(_)
TrimRight(s) == IF s # <<>> /\ IsWs(s[Len(s)]) THEN TrimRight(SubSeq(s, 1, Len(s) - 1)) ELSE s

Trim(s) == TrimRight(TrimLeft(s))

\* /^inj[a-z0-9]{20,80}$/i.test(s)
MatchesInj(s) ==
    /\ Len(s) >= 3 + 20
    /\ Len(s) <= 3 + 80
    /\ s[1] \in {"i", "I"} /\ s[2] \in {"n", "N"} /\ s[3] \in {"j", "J"}
    /\ \A i \in 4..Len(s) : IsAlnum(s[i])

\* normalizeAddr(a): the trimmed address, "" when it is not valid
normalizeAddr(a) ==
    LET s == Trim(ToStringJS(Or(a, JStr(<<>>))))
    IN IF ~MatchesInj(s) THEN <<>> ELSE s

\* pathname ignoring the address: every address shares one blob
pathnameShared(address) ==
    <<"i", "n", "j", "-", "p", "o", "i", "n", "t", "s", "/">> \o <<"d", "a", "t", "a", ".", "j", "s", "o", "n">>

\* `inj-points/${address}/data.json`
pathname(address) ==
    <<"i", "n", "j", "-", "p", "o", "i", "n", "t", "s", "/">> \o address \o <<"/", "d", "a", "t", "a", ".", "j", "s", "o", "n">>

NumsToJson(a) == JArr([i \in 1..Len(a) |-> JNum(a[i])])

StrsToJson(a) == JArr([i \in 1..Len(a) |-> JStr(a[i])])

EventToJson(e) ==
    JObj([id |-> JStr(e.id), ts |-> JNum(e.ts), kind |-> JStr(e.kind), title |-> JStr(e.title),
          detail |-> JStr(e.detail), value |-> JNum(e.value), dir |-> JStr(e.dir), status |-> JStr(e.status)])

\* JSON.parse(JSON.stringify(d)) of a document sanitizePayload returned: the
\* same numbers and strings as a JSON value
DocToJson(d) ==
    JObj([v |-> JNum(d.v),
          t |-> JNum(d.t),
          stake |-> JObj([labels |-> StrsToJson(d.stake.labels), data |-> NumsToJson(d.stake.data),
                          moves |-> NumsToJson(d.stake.moves), types |-> StrsToJson(d.stake.types)]),
          wd |-> JObj([labels |-> StrsToJson(d.wd.labels), values |-> NumsToJson(d.wd.values),
                       times |-> NumsToJson(d.wd.times)]),
          nw |-> JObj([times |-> NumsToJson(d.nw.times), usd |-> NumsToJson(d.nw.usd),
                       inj |-> NumsToJson(d.nw.inj)]),
          events |-> JArr([i \in 1..Len(d.events) |-> EventToJson(d.events[i])])])

\* A text is a record: len its length, and json the value it parses to when
\* it is valid JSON (no json field otherwise).
TextOf(v, n) == [len |-> n, json |-> v]

BadText(n) == [len |-> n]

EmptyText == [len |-> 0]

\* whether JSON.parse(txt) returns
Parses(txt) == "json" \in DOMAIN txt

\* JSON.stringify(clean) as put() receives it
BlobOf(clean) == TextOf(DocToJson(clean), 100)

\* readBlobTextByPathname: the text of the blob, null when head() finds none
readBlobTextByPathname(pn) == IF pn \in DOMAIN blobs THEN blobs[pn] ELSE JNull

\* The outcomes of readRawBody(req): a text, null ("too large") or no return.
\* A body the platform attached as req.body is returned or stringified
\* whatever its size.  A streamed body is accumulated chunk by chunk; past
\* MAX_BODY_BYTES the request is destroyed, after which the end event the
\* promise waits for may still be delivered (null is returned) or not (the
\* call does not return).
Hang == [hang |-> TRUE]

readRawBody(req) ==
    IF ~IsUndef(req.body) /\ ~IsNull(req.body)
    THEN IF IsStr(req.body) THEN {req.text} ELSE {TextOf(req.body, req.text.len)}
    ELSE IF req.text.len > MAX_BODY_BYTES THEN {JNull, Hang} ELSE {req.text}

\* what the handler answers, with what it answers to: the method, the
\* normalized address, the length of the body sent and whether the address
\* query parameter was a valid one
Response(req, address, code, error, data) ==
    [status |-> code, method |-> req.method, addr |-> address, error |-> error, data |-> data,
     bytes |-> req.text.len, valid |-> normalizeAddr(req.address) # <<>>]

\* OPTIONS answered after the address is checked
OptionsChecked(req) ==
    /\ req.method = "OPTIONS"
    /\ resp' = IF normalizeAddr(req.address) = <<>>
               THEN Response(req, <<>>, 400, "Invalid address", Undef)
               ELSE Response(req, <<>>, 204, "", Undef)
    /\ UNCHANGED <<now, pointVars, sanVars, trackVars>>

\* if (req.method === "OPTIONS") 204
Options(req) ==
    /\ req.method = "OPTIONS"
    /\ resp' = Response(req, <<>>, 204, "", Undef)
    /\ UNCHANGED <<now, pointVars, sanVars, trackVars>>

\* if (!address) 400 "Invalid address"
InvalidAddress(req) ==
    /\ req.method # "OPTIONS"
    /\ normalizeAddr(req.address) = <<>>
    /\ resp' = Response(req, <<>>, 400, "Invalid address", Undef)
    /\ UNCHANGED <<now, pointVars, sanVars, trackVars>>

\* GET: the stored text parsed, data = null when there is none or it does not parse
Get_(req) ==
    LET address == normalizeAddr(req.address)
        txt == readBlobTextByPathname(pathname(address))
    IN /\ req.method = "GET"
       /\ address # <<>>
       /\ resp' = Response(req, address, 200, "",
                           IF IsNull(txt) \/ txt.len = 0 THEN JNull
                           ELSE IF Parses(txt) THEN txt.json ELSE JNull)
       /\ UNCHANGED <<now, pointVars, sanVars, trackVars>>

\* POST: the body read, parsed, sanitized and put under the address' pathname
Post(req) ==
    LET address == normalizeAddr(req.address)
    IN /\ req.method = "POST"
       /\ address # <<>>
       /\ \E raw \in readRawBody(req) :
             CASE raw = Hang ->
                    /\ resp' = [status |-> 0]
                    /\ UNCHANGED <<now, pointVars, sanVars, trackVars>>
               [] IsNull(raw) ->
                    /\ resp' = Response(req, address, 413, "Body too large", Undef)
                    /\ UNCHANGED <<now, pointVars, sanVars, trackVars>>
               [] ~IsNull(raw) /\ raw # Hang /\ raw.len = 0 ->
                    /\ resp' = Response(req, address, 400, "Empty body", Undef)
                    /\ UNCHANGED <<now, pointVars, sanVars, trackVars>>
               [] ~IsNull(raw) /\ raw # Hang /\ raw.len # 0 /\ ~Parses(raw) ->
                    /\ resp' = Response(req, address, 400, "Invalid JSON", Undef)
                    /\ UNCHANGED <<now, pointVars, sanVars, trackVars>>
               [] OTHER ->
                    \E ticks \in TickSeqs(EventsOf(raw.json)), last \in Ticks, putOk \in BOOLEAN :
                       LET rs == Readings(EventsOf(raw.json), now, ticks)
                           t == Last(rs, now) + last
                           clean == sanitizePayload(raw.json, rs, t)
                       IN /\ t <= MaxClock
                          /\ now' = t
                          /\ UNCHANGED <<sanVars, trackVars>>
                          /\ IF putOk
                             THEN /\ blobs' = (pathname(address) :> BlobOf(clean)) @@ blobs
                                  /\ posted' = (address :> clean) @@ posted
                                  /\ resp' = Response(req, address, 200, "", JNum(clean.t))
                                  /\ UNCHANGED upload
                             ELSE /\ resp' = Response(req, address, 500, "Server error", Undef)
                                  /\ UNCHANGED pointVars

\* any other method: 405
MethodNotAllowed(req) ==
    /\ req.method \notin {"OPTIONS", "GET", "POST"}
    /\ normalizeAddr(req.address) # <<>>
    /\ resp' = Response(req, normalizeAddr(req.address), 405, "Method not allowed", Undef)
    /\ UNCHANGED <<now, pointVars, sanVars, trackVars>>

(***************************************************************************)
(* Requests to the snapshot endpoint                                       *)
(***************************************************************************)
Addr(c) == <<"i", "n", "j">> \o Rep(c, 20)

\* query values: two valid addresses, the first one also padded with blanks,
\* one a character short, none
Addresses ==
    {JStr(Addr("a")), JStr(Addr("7")), JStr(<<" ">> \o Addr("a") \o <<" ">>),
     JStr(<<"i", "n", "j">> \o Rep("a", 19)), Undef}

\* the bodies of the POSTs: the stake.data = [1,2,3] snapshot without labels,
\* and a snapshot of two events one of which reads the clock
Snapshots ==
    {JObj([stake |-> JObj([data |-> JArr(<<JNum(1), JNum(2), JNum(3)>>)])]),
     JObj([wd |-> WdOne, events |-> JArr(<<JNull, JObj([ts |-> JNum(5), id |-> JStr(<<"a">>)])>>)])}

Texts ==
    {TextOf(v, 100) : v \in Snapshots}
    \cup {TextOf(JNull, MAX_BODY_BYTES + 1), BadText(7), EmptyText}

\* a request: its method, its address query parameter, the body text the
\* client sent and req.body (undefined when the platform leaves the body to
\* be streamed, else the text as a string or the value it parsed to)
Requests ==
    {[method |-> m, address |-> a, text |-> EmptyText, body |-> Undef] :
        m \in {"GET", "OPTIONS", "PUT"}, a \in Addresses}
    \cup {[method |-> "POST", address |-> a, text |-> x, body |-> Undef] : a \in Addresses, x \in Texts}
    \cup {[method |-> "POST", address |-> a, text |-> x, body |-> JStr(<<"t">>)] : a \in Addresses, x \in Texts}
    \cup {[method |-> "POST", address |-> a, text |-> x, body |-> x.json] :
             a \in Addresses, x \in {y \in Texts : Parses(y) /\ Truthy(y.json)}}

InitPoint ==
    /\ p = JNull
    /\ out = NoDoc
    /\ cleaned = <<>>
    /\ now = 8
    /\ blobs = <<>>
    /\ posted = <<>>
    /\ upload = [phase |-> "idle"]
    /\ sessionsDoc = NoDoc
    /\ namesDoc = NoDoc
    /\ inflight = <<>>
    /\ resp = [status |-> 0]

NextPoint ==
    \/ \E req \in Requests : Options(req)
    \/ \E req \in Requests : InvalidAddress(req)
    \/ \E req \in Requests : Get_(req)
    \/ \E req \in Requests : Post(req)
    \/ \E req \in Requests : MethodNotAllowed(req)

SpecPoint == InitPoint /\ [][NextPoint]_vars

(***************************************************************************)
(* A snapshot read back and posted again                                   *)
(*                                                                         *)
(* The client GETs the document sanitizePayload returned (as JSON) and     *)
(* POSTs it unchanged: sanitizePayload runs on its own output.             *)
(***************************************************************************)
\* events whose id or kind is a value that is truthy and whose String() is
\* empty (an empty array), besides the events of RawEvents
RoundTripEvents ==
    RawEvents
    \cup {JObj([ts |-> JNum(4), id |-> JArr(<<>>)]),
          JObj([ts |-> JNum(6), id |-> JStr(<<"k">>), kind |-> JArr(<<>>)])}

RoundTripPayloads ==
    {Payload(s, Undef, Undef, Undef) : s \in StakeIn}
    \cup {Payload(Undef, w, Undef, Undef) : w \in WdIn}
    \cup {Payload(Undef, Undef, n, Undef) : n \in NwIn}
    \cup {Payload(StakeOne, WdOne, NwOne, JArr(q)) : q \in SeqsUpTo(RoundTripEvents, MaxEvLen)}
    \cup {JNull}

\* p is a document read back from the store
ReadBack == IsObj(p) /\ "t" \in DOMAIN p.obj

\* the stored document is posted back as it is
Resubmit ==
    /\ out # NoDoc
    /\ ~ReadBack
    /\ LET doc == DocToJson(out)
       IN \E ticks \in TickSeqs(EventsOf(doc)), last \in Ticks :
             LET rs == Readings(EventsOf(doc), now, ticks)
                 t == Last(rs, now) + last
             IN /\ p' = doc
                /\ out' = sanitizePayload(doc, rs, t)
                /\ cleaned' = Cleaned(EventsOf(doc), rs)
                /\ now' = t
    /\ UNCHANGED <<pointVars, trackVars, resp>>

InitRoundTrip ==
    /\ p \in RoundTripPayloads
    /\ out = NoDoc
    /\ cleaned = <<>>
    /\ now = 8
    /\ blobs = <<>>
    /\ posted = <<>>
    /\ upload = [phase |-> "idle"]
    /\ sessionsDoc = NoDoc
    /\ namesDoc = NoDoc
    /\ inflight = <<>>
    /\ resp = [status |-> 0]

NextRoundTrip ==
    \/ Sanitize
    \/ Resubmit

SpecRoundTrip == InitRoundTrip /\ [][NextRoundTrip]_vars

(***************************************************************************)
(* readRawBody, event by event                                             *)
(*                                                                         *)
(* The body of a POST without req.body arrives as data events, one per     *)
(* chunk, then an end event that resolves the promise readRawBody awaits.  *)
(* When the accumulated text passes MAX_BODY_BYTES the data handler calls  *)
(* req.destroy(): no data event follows, and the end event is delivered    *)
(* only if it was already due; a destroyed stream emits none.              *)
(***************************************************************************)
\* the most chunks a body arrives in
MaxChunks == 3

\* the lengths of the chunks
ChunkSizes == {1, 110000, 220000}

Bodies == UNION {[1..n -> ChunkSizes] : n \in 0..MaxChunks}

RECURSIVE Sum(_)
Sum(q) == IF q = <<>> THEN 0 ELSE Head(q) + Sum(Tail(q))

\* the request whose body is being read
Uploading == [method |-> "POST", address |-> JStr(Addr("a")), text |-> [len |-> upload.total], body |-> Undef]

\* readRawBody is called: raw = "", tooLarge = false, the handlers are attached
StreamBegin(chunks) ==
    /\ upload.phase = "idle"
    /\ upload' = [phase |-> "reading", raw |-> 0, tooLarge |-> FALSE, rest |-> chunks,
                  destroyed |-> FALSE, total |-> Sum(chunks)]
    /\ UNCHANGED <<now, blobs, posted, resp, sanVars, trackVars>>

\* req.on("data"): raw += chunk; past the ceiling tooLarge = true, raw = "", req.destroy()
StreamData ==
    /\ upload.phase = "reading"
    /\ ~upload.destroyed
    /\ upload.rest # <<>>
    /\ IF upload.raw + Head(upload.rest) > MAX_BODY_BYTES
       THEN \E endDue \in BOOLEAN :
               upload' = [upload EXCEPT !.raw = 0, !.tooLarge = TRUE, !.rest = <<>>, !.destroyed = ~endDue]
       ELSE upload' = [upload EXCEPT !.raw = @ + Head(upload.rest), !.rest = Tail(@)]
    /\ UNCHANGED <<now, blobs, posted, resp, sanVars, trackVars>>

\* req.on("end", resolve)
StreamEnd ==
    /\ upload.phase = "reading"
    /\ ~upload.destroyed
    /\ upload.rest = <<>>
    /\ upload' = [upload EXCEPT !.phase = "ended"]
    /\ UNCHANGED <<now, blobs, posted, resp, sanVars, trackVars>>

\* readRawBody returns: null when tooLarge (413), "" (400), or the text, which
\* the handler goes on to parse
StreamReturn ==
    /\ upload.phase = "ended"
    /\ IF upload.tooLarge
       THEN /\ resp' = Response(Uploading, Addr("a"), 413, "Body too large", Undef)
            /\ upload' = [upload EXCEPT !.phase = "answered"]
       ELSE IF upload.raw = 0
       THEN /\ resp' = Response(Uploading, Addr("a"), 400, "Empty body", Undef)
            /\ upload' = [upload EXCEPT !.phase = "answered"]
       ELSE /\ upload' = [upload EXCEPT !.phase = "returned"]
            /\ UNCHANGED resp
    /\ UNCHANGED <<now, blobs, posted, sanVars, trackVars>>

InitStream ==
    /\ p = JNull
    /\ out = NoDoc
    /\ cleaned = <<>>
    /\ now = MaxClock
    /\ blobs = <<>>
    /\ posted = <<>>
    /\ upload = [phase |-> "idle"]
    /\ sessionsDoc = NoDoc
    /\ namesDoc = NoDoc
    /\ inflight = <<>>
    /\ resp = [status |-> 0]

NextStream ==
    \/ \E chunks \in Bodies : StreamBegin(chunks)
    \/ StreamData
    \/ StreamEnd
    \/ StreamReturn

\* the events that are due are delivered and the handler runs on
SpecStream ==
    /\ InitStream
    /\ [][NextStream]_vars
    /\ WF_vars(StreamData)
    /\ WF_vars(StreamEnd)
    /\ WF_vars(StreamReturn)

(***************************************************************************)
(* api/track.js                                                            *)
(*                                                                         *)
(* A session record is [sessionId, deviceId, startTs, lastTs, endTs,       *)
(* beats, page, deviceInfo, endReason]: endTs is null or a number,         *)
(* endReason undefined or a string, deviceInfo an object of which only the *)
(* size of its JSON text is kept.  The stored documents are kept as the    *)
(* values their JSON text parses to.                                       *)
(***************************************************************************)
\* MAX_SESSIONS is 5000 in the source; the model keeps the cap and scales it
MAX_SESSIONS == 2

\* the most beats the model lets one session count
MaxBeats == 1

S_end == <<"e", "n", "d">>
S_start == <<"s", "t", "a", "r", "t">>
S_beat == <<"b", "e", "a", "t">>
S_name == <<"n", "a", "m", "e">>

\* JSON.stringify(x).length of a deviceInfo value: {} when there is none
EmptyInfo == [bytes |-> 2]

InfoOf(payload) == IF Truthy(Get(payload, "deviceInfo")) THEN [bytes |-> Get(payload, "deviceInfo").obj.bytes] ELSE EmptyInfo

\* JSON.stringify(data).length for an array of session records: the brackets,
\* the commas, and per record its keys and short values, its page, its
\* deviceInfo and its endReason when there is one
RECURSIVE SumBytes(_)
SumBytes(a) ==
    IF a = <<>> THEN 0
    ELSE 102 + Len(Head(a).page) + Head(a).deviceInfo.bytes
         + (IF IsStr(Head(a).endReason) THEN 15 + Len(Head(a).endReason.str) ELSE 0)
         + SumBytes(Tail(a))

BodyLength(a) == 2 + SumBytes(a) + (IF Len(a) > 1 THEN Len(a) - 1 ELSE 0)

\* a stored document whose text is not JSON
BadDoc == [bad |-> TRUE]

\* readJsonOr: r.json() throws on a text that is not JSON
JsonThrows(doc) == doc = BadDoc

\* readJsonOr(defaultValue, pathname) when r.json() does not throw
readJsonOr(defaultValue, doc) == IF doc = NoDoc THEN defaultValue ELSE doc

\* writeJson keeping the oldest records of an over-long array
writeJsonOldest(data) ==
    IF BodyLength(data) > MAX_BODY_BYTES
    THEN Prefix(data, (Len(data) * 7) \div 10)
    ELSE data

\* writeJson(SESSIONS_KEY, data): what is put, the array or, when its text is
\* longer than MAX_BODY_BYTES, data.slice(-Math.floor(data.length * 0.7))
writeJson(data) ==
    IF BodyLength(data) > MAX_BODY_BYTES
    THEN SliceLast(data, (Len(data) * 7) \div 10)
    ELSE data

\* a find that finds no record
FindNone(sessions, sessionId) == 0

\* sessions.find((x) => x.sessionId === sessionId): its index, 0 when none
FindIndex(sessions, sessionId) ==
    IF \E i \in 1..Len(sessions) : sessions[i].sessionId = sessionId
    THEN CHOOSE i \in 1..Len(sessions) :
            /\ sessions[i].sessionId = sessionId
            /\ \A j \in 1..(i - 1) : sessions[j].sessionId # sessionId
    ELSE 0

\* Math.max(a, b)
MathMax(a, b) == IF a >= b THEN a ELSE b

\* the record a start creates
NewStart(sessionId, deviceId, ts, payload) ==
    [sessionId |-> sessionId, deviceId |-> deviceId, startTs |-> ts, lastTs |-> ts,
     endTs |-> JNull, beats |-> 0,
     page |-> ToStringJS(Or(Get(payload, "page"), JStr(<<>>))),
     deviceInfo |-> InfoOf(payload), endReason |-> Undef]

\* a minimal record with the start of the session left at 0
NewMinimalNoStart(sessionId, deviceId, ts, endTs) ==
    [sessionId |-> sessionId, deviceId |-> deviceId, startTs |-> 0, lastTs |-> ts,
     endTs |-> endTs, beats |-> 0, page |-> <<>>, deviceInfo |-> EmptyInfo, endReason |-> Undef]

\* the minimal record a beat or an end creates: endTs is null for a beat, ts for an end
NewMinimal(sessionId, deviceId, ts, endTs) ==
    [sessionId |-> sessionId, deviceId |-> deviceId, startTs |-> ts, lastTs |-> ts,
     endTs |-> endTs, beats |-> 0, page |-> <<>>, deviceInfo |-> EmptyInfo, endReason |-> Undef]

\* the start branch: push a new record, or on a retry s.startTs = s.startTs || ts; s.lastTs = ts
ReduceStart(sessions, sessionId, deviceId, ts, payload) ==
    LET i == FindIndex(sessions, sessionId)
    IN IF i = 0 THEN Append(sessions, NewStart(sessionId, deviceId, ts, payload))
       ELSE [sessions EXCEPT ![i].startTs = IF @ # 0 THEN @ ELSE ts, ![i].lastTs = ts]

\* the beat branch
ReduceBeat(sessions, sessionId, deviceId, ts) ==
    LET i == FindIndex(sessions, sessionId)
        arr == IF i = 0 THEN Append(sessions, NewMinimal(sessionId, deviceId, ts, JNull)) ELSE sessions
        k == IF i = 0 THEN Len(arr) ELSE i
    IN [arr EXCEPT ![k].lastTs = MathMax(@, ts), ![k].beats = @ + 1]

\* the end branch: s.endTs = s.endTs || ts
ReduceEnd(sessions, sessionId, deviceId, ts, payload) ==
    LET i == FindIndex(sessions, sessionId)
        arr == IF i = 0 THEN Append(sessions, NewMinimal(sessionId, deviceId, ts, JNum(ts))) ELSE sessions
        k == IF i = 0 THEN Len(arr) ELSE i
    IN [arr EXCEPT ![k].lastTs = MathMax(@, ts),
                   ![k].endTs = IF Truthy(@) THEN @ ELSE JNum(ts),
                   ![k].endReason = JStr(ToStringJS(Or(Get(payload, "reason"), JStr(S_end))))]

\* the cap taking the newest records away
CapNewest(sessions) ==
    IF Len(sessions) > MAX_SESSIONS THEN Prefix(sessions, MAX_SESSIONS) ELSE sessions

\* if (sessions.length > MAX_SESSIONS) sessions.splice(0, sessions.length - MAX_SESSIONS)
Cap(sessions) ==
    IF Len(sessions) > MAX_SESSIONS
    THEN SubSeq(sessions, Len(sessions) - MAX_SESSIONS + 1, Len(sessions))
    ELSE sessions

\* String(payload.sessionId || ""), String(payload.deviceId || "")
IdOf(payload, k) == ToStringJS(Or(Get(payload, k), JStr(<<>>)))

\* Number(payload.ts || nowMs())
TsOf(payload, t) == ToNumber(Or(Get(payload, "ts"), JNum(t)))

\* what the handler answers: for a GET, a rejected request or a read that
\* threw, the status with the request it answers; for an accepted session
\* event its type, sessionId and ts, and the numbers of records the cap and
\* the size fallback of writeJson removed
TrackResponse(req, code, error) == [status |-> code, error |-> error, req |-> req]

Accepted(req, type, sessionId, ts, reduced) ==
    [status |-> 200, error |-> "", type |-> type, sid |-> sessionId, ts |-> ts,
     capped |-> Len(reduced) - Len(Cap(reduced)),
     trimmed |-> Len(Cap(reduced)) - Len(writeJson(Cap(reduced)))]

\* the catch of the handler: 500 with the message of what was thrown
Caught(req, message) == TrackResponse(req, 500, message)

\* the catch of the handler when put threw
PutFailed == [status |-> 500, error |-> "put"]

\* POST with a body that is present, not too long, JSON, and not null
IsTrackPost(req) ==
    /\ req.method = "POST"
    /\ req.text.len # 0
    /\ req.text.len <= MAX_BODY_BYTES
    /\ Parses(req.text)
    /\ ~IsNull(req.text.json)

\* GET: both documents, [] and {} when there is none
TrackGet(req) ==
    /\ req.method = "GET"
    /\ resp' = IF JsonThrows(sessionsDoc) \/ JsonThrows(namesDoc) THEN Caught(req, "r.json")
               ELSE [status |-> 200, error |-> "", req |-> req,
                     sessions |-> readJsonOr(JArr(<<>>), sessionsDoc).arr,
                     names |-> readJsonOr(JObj(<<>>), namesDoc).obj]
    /\ UNCHANGED <<now, trackVars, pointVars, sanVars>>

\* any method but GET and POST: 405
TrackNotAllowed(req) ==
    /\ req.method \notin {"GET", "POST"}
    /\ resp' = TrackResponse(req, 405, "Method Not Allowed")
    /\ UNCHANGED <<now, trackVars, pointVars, sanVars>>

\* POST with an empty body (400), a body too large (413), a body JSON.parse
\* throws on, or the body null so that payload.type throws (500)
TrackBadBody(req) ==
    /\ req.method = "POST"
    /\ ~IsTrackPost(req)
    /\ resp' = IF req.text.len = 0 THEN TrackResponse(req, 400, "Empty body")
               ELSE IF req.text.len > MAX_BODY_BYTES THEN TrackResponse(req, 413, "Body too large")
               ELSE Caught(req, "JSON.parse")
    /\ UNCHANGED <<now, trackVars, pointVars, sanVars>>

\* type "name": names[payload.deviceId] = n
TrackName(req) ==
    /\ IsTrackPost(req)
    /\ Get(req.text.json, "type") = JStr(S_name)
    /\ LET payload == req.text.json
           names == readJsonOr(JObj(<<>>), namesDoc).obj
           n == Prefix(Trim(ToStringJS(Or(Get(payload, "name"), JStr(<<>>)))), 32)
       IN IF JsonThrows(namesDoc)
          THEN /\ resp' = Caught(req, "r.json")
               /\ UNCHANGED namesDoc
          ELSE IF ~Truthy(Get(payload, "deviceId"))
          THEN /\ resp' = TrackResponse(req, 400, "Missing deviceId")
               /\ UNCHANGED namesDoc
          ELSE IF n = <<>>
          THEN /\ resp' = TrackResponse(req, 400, "Empty name")
               /\ UNCHANGED namesDoc
          ELSE \E putOk \in BOOLEAN :
                  IF putOk
                  THEN /\ namesDoc' = JObj((ToStringJS(Get(payload, "deviceId")) :> n) @@ names)
                       /\ resp' = TrackResponse(req, 200, "")
                  ELSE /\ resp' = PutFailed
                       /\ UNCHANGED namesDoc
    /\ UNCHANGED <<now, sessionsDoc, inflight, pointVars, sanVars>>

\* a session event without sessionId or deviceId: 400
TrackMissingIds(req) ==
    /\ IsTrackPost(req)
    /\ Get(req.text.json, "type") # JStr(S_name)
    /\ IdOf(req.text.json, "sessionId") = <<>> \/ IdOf(req.text.json, "deviceId") = <<>>
    /\ resp' = IF JsonThrows(sessionsDoc) THEN Caught(req, "r.json")
               ELSE TrackResponse(req, 400, "Missing sessionId/deviceId")
    /\ UNCHANGED <<now, trackVars, pointVars, sanVars>>

\* a session event of the given type with both ids
IsEvent(req, type) ==
    /\ IsTrackPost(req)
    /\ Get(req.text.json, "type") = JStr(type)
    /\ IdOf(req.text.json, "sessionId") # <<>>
    /\ IdOf(req.text.json, "deviceId") # <<>>

\* the session path around the reducer: the read of the collection (500 when
\* it throws), then cap, writeJson, 200 (500 when put throws)
Commit(req, type, reduced, ts) ==
    \E putOk \in BOOLEAN :
        IF JsonThrows(sessionsDoc)
        THEN /\ resp' = Caught(req, "r.json")
             /\ UNCHANGED sessionsDoc
        ELSE IF putOk
        THEN /\ sessionsDoc' = JArr(writeJson(Cap(reduced)))
             /\ resp' = Accepted(req, type, IdOf(req.text.json, "sessionId"), ts, reduced)
        ELSE /\ resp' = PutFailed
             /\ UNCHANGED sessionsDoc

TrackStart(req) ==
    /\ IsEvent(req, S_start)
    /\ \E tick \in Ticks :
          LET payload == req.text.json
              ts == TsOf(payload, now + tick).num
          IN /\ now + tick <= MaxClock
             /\ now' = now + tick
             /\ Commit(req, "start",
                       ReduceStart(readJsonOr(JArr(<<>>), sessionsDoc).arr, IdOf(payload, "sessionId"),
                                   IdOf(payload, "deviceId"), ts, payload), ts)
    /\ UNCHANGED <<namesDoc, inflight, pointVars, sanVars>>

TrackBeat(req) ==
    /\ IsEvent(req, S_beat)
    /\ LET sessions == readJsonOr(JArr(<<>>), sessionsDoc).arr
       IN IF JsonThrows(sessionsDoc) THEN TRUE
          ELSE \A i \in 1..Len(sessions) : sessions[i].beats < MaxBeats
    /\ \E tick \in Ticks :
          LET payload == req.text.json
              ts == TsOf(payload, now + tick).num
          IN /\ now + tick <= MaxClock
             /\ now' = now + tick
             /\ Commit(req, "beat",
                       ReduceBeat(readJsonOr(JArr(<<>>), sessionsDoc).arr, IdOf(payload, "sessionId"),
                                  IdOf(payload, "deviceId"), ts), ts)
    /\ UNCHANGED <<namesDoc, inflight, pointVars, sanVars>>

TrackEnd(req) ==
    /\ IsEvent(req, S_end)
    /\ \E tick \in Ticks :
          LET payload == req.text.json
              ts == TsOf(payload, now + tick).num
          IN /\ now + tick <= MaxClock
             /\ now' = now + tick
             /\ Commit(req, "end",
                       ReduceEnd(readJsonOr(JArr(<<>>), sessionsDoc).arr, IdOf(payload, "sessionId"),
                                 IdOf(payload, "deviceId"), ts, payload), ts)
    /\ UNCHANGED <<namesDoc, inflight, pointVars, sanVars>>

\* any other type: 400
TrackUnknown(req) ==
    /\ IsTrackPost(req)
    /\ Get(req.text.json, "type") \notin {JStr(S_name), JStr(S_start), JStr(S_beat), JStr(S_end)}
    /\ IdOf(req.text.json, "sessionId") # <<>>
    /\ IdOf(req.text.json, "deviceId") # <<>>
    /\ resp' = IF JsonThrows(sessionsDoc) THEN Caught(req, "r.json")
               ELSE TrackResponse(req, 400, "Unknown type")
    /\ UNCHANGED <<now, trackVars, pointVars, sanVars>>

(***************************************************************************)
(* Requests to the tracking endpoint                                       *)
(***************************************************************************)
Sid(c) == JStr(<<"s", c>>)

D1 == JStr(<<"d", "1">>)

\* a deviceInfo whose JSON text fills most of a request body
BigInfo == JObj([bytes |-> 219785])

\* The events: for session s1 a start, beats and ends with ts absent (the clock
\* is read), the string "0" or a number; a beat and an end for s2; a start
\* for s3; a start with a large deviceInfo for s4; an unknown type; events without sessionId
\* or deviceId; names
TrackPayloads ==
    {JObj([type |-> JStr(S_start), sessionId |-> Sid("1"), deviceId |-> D1, ts |-> JNum(5)]),
     JObj([type |-> JStr(S_beat), sessionId |-> Sid("1"), deviceId |-> D1]),
     JObj([type |-> JStr(S_beat), sessionId |-> Sid("1"), deviceId |-> D1, ts |-> JNum(5)]),
     JObj([type |-> JStr(S_end), sessionId |-> Sid("1"), deviceId |-> D1]),
     JObj([type |-> JStr(S_end), sessionId |-> Sid("1"), deviceId |-> D1, ts |-> JStr(<<"0">>)]),
     JObj([type |-> JStr(S_end), sessionId |-> Sid("1"), deviceId |-> D1, ts |-> JNum(5)]),
     JObj([type |-> JStr(S_beat), sessionId |-> Sid("2"), deviceId |-> D1]),
     JObj([type |-> JStr(S_end), sessionId |-> Sid("2"), deviceId |-> D1, ts |-> JNum(5),
           reason |-> JStr(<<"x">>)]),
     JObj([type |-> JStr(S_start), sessionId |-> Sid("3"), deviceId |-> D1, page |-> JStr(<<"/">>)]),
     JObj([type |-> JStr(S_start), sessionId |-> Sid("4"), deviceId |-> D1, deviceInfo |-> BigInfo]),
     JObj([type |-> JStr(<<"z", "a", "p">>), sessionId |-> Sid("1"), deviceId |-> D1]),
     JObj([type |-> JStr(S_beat), deviceId |-> D1]),
     JObj([type |-> JStr(S_beat), sessionId |-> Sid("1")]),
     JObj([type |-> JStr(S_name), deviceId |-> D1, name |-> JStr(<<" ", "b", "o", "b", " ">>)]),
     JObj([type |-> JStr(S_name), deviceId |-> D1, name |-> JStr(<<" ">>)]),
     JObj([type |-> JStr(S_name), name |-> JStr(<<"b", "o", "b">>)])}

\* the length of the body carrying a payload
BodyOf(v) == TextOf(v, 100 + InfoOf(v).bytes)

TrackRequests ==
    {[method |-> "POST", text |-> BodyOf(v)] : v \in TrackPayloads}
    \cup {[method |-> "POST", text |-> x] :
             x \in {EmptyText, BadText(7), TextOf(JNull, 4), TextOf(JNull, MAX_BODY_BYTES + 1)}}
    \cup {[method |-> m, text |-> EmptyText] : m \in {"GET", "PUT"}}

\* the store is empty, or both documents hold text that is not JSON
InitTrack ==
    /\ p = JNull
    /\ out = NoDoc
    /\ cleaned = <<>>
    /\ now = MaxClock
    /\ blobs = <<>>
    /\ posted = <<>>
    /\ upload = [phase |-> "idle"]
    /\ \E doc \in {NoDoc, BadDoc} : sessionsDoc = doc /\ namesDoc = doc
    /\ inflight = <<>>
    /\ resp = [status |-> 0]

NextTrack ==
    \/ \E req \in TrackRequests : TrackGet(req)
    \/ \E req \in TrackRequests : TrackNotAllowed(req)
    \/ \E req \in TrackRequests : TrackBadBody(req)
    \/ \E req \in TrackRequests : TrackName(req)
    \/ \E req \in TrackRequests : TrackMissingIds(req)
    \/ \E req \in TrackRequests : TrackStart(req)
    \/ \E req \in TrackRequests : TrackBeat(req)
    \/ \E req \in TrackRequests : TrackEnd(req)
    \/ \E req \in TrackRequests : TrackUnknown(req)

SpecTrack == InitTrack /\ [][NextTrack]_vars

(***************************************************************************)
(* Overlapping requests to the tracking endpoint                           *)
(*                                                                         *)
(* The handler awaits the read of the collection (readJsonOr) and later    *)
(* the put of writeJson; between the two another invocation can run.  A    *)
(* request in flight holds the collection it read; the reducer, the cap    *)
(* and writeJson then work on that array.                                  *)
(***************************************************************************)
\* the most requests handled at the same time
MaxInflight == 2

Slots == 1..MaxInflight

\* the reducer of the handler on the collection a request read
Reduce(sessions, payload, ts) ==
    CASE Get(payload, "type") = JStr(S_start) ->
           ReduceStart(sessions, IdOf(payload, "sessionId"), IdOf(payload, "deviceId"), ts, payload)
      [] Get(payload, "type") = JStr(S_beat) ->
           ReduceBeat(sessions, IdOf(payload, "sessionId"), IdOf(payload, "deviceId"), ts)
      [] Get(payload, "type") = JStr(S_end) ->
           ReduceEnd(sessions, IdOf(payload, "sessionId"), IdOf(payload, "deviceId"), ts, payload)

TypeName(payload) ==
    CASE Get(payload, "type") = JStr(S_start) -> "start"
      [] Get(payload, "type") = JStr(S_beat) -> "beat"
      [] Get(payload, "type") = JStr(S_end) -> "end"

\* the collection as it is stored when request i writes
StoredNow(i) == readJsonOr(JArr(<<>>), sessionsDoc).arr

\* const sessions = await readJsonOr([], SESSIONS_KEY): the array request i
\* holds since its read
SessionsOf(i) == inflight[i].snap

\* a request in flight that has read the collection and not yet written
Reading(i) == i \in DOMAIN inflight /\ "snap" \in DOMAIN inflight[i]

\* a request that was answered
Done(i) == i \in DOMAIN inflight /\ "status" \in DOMAIN inflight[i]

\* the handler up to the read of the collection
RaceRead(i, req) ==
    /\ i \notin DOMAIN inflight
    /\ \E type \in {S_start, S_beat, S_end} : IsEvent(req, type)
    /\ ~JsonThrows(sessionsDoc)
    /\ inflight' = (i :> [req |-> req, snap |-> readJsonOr(JArr(<<>>), sessionsDoc).arr]) @@ inflight
    /\ UNCHANGED <<now, sessionsDoc, namesDoc, resp, pointVars, sanVars>>

\* the handler from the reducer to the answer
RaceWrite(i) ==
    /\ Reading(i)
    /\ LET req == inflight[i].req
           payload == req.text.json
           ts == TsOf(payload, now).num
           reduced == Reduce(SessionsOf(i), payload, ts)
       IN \E putOk \in BOOLEAN :
             IF putOk
             THEN /\ sessionsDoc' = JArr(writeJson(Cap(reduced)))
                  /\ resp' = Accepted(req, TypeName(payload), IdOf(payload, "sessionId"), ts, reduced)
                  /\ inflight' = [inflight EXCEPT ![i] = [req |-> req, status |-> 200]]
             ELSE /\ resp' = PutFailed
                  /\ inflight' = [inflight EXCEPT ![i] = [req |-> req, status |-> 500]]
                  /\ UNCHANGED sessionsDoc
    /\ UNCHANGED <<now, namesDoc, pointVars, sanVars>>

\* the events of the overlapping requests: beats for s1 and s2, a start and an
\* end for s1, a start for s3, a start with a large deviceInfo for s4
RacePayloads ==
    {JObj([type |-> JStr(S_beat), sessionId |-> Sid("1"), deviceId |-> D1]),
     JObj([type |-> JStr(S_beat), sessionId |-> Sid("2"), deviceId |-> D1]),
     JObj([type |-> JStr(S_start), sessionId |-> Sid("1"), deviceId |-> D1, ts |-> JNum(5)]),
     JObj([type |-> JStr(S_end), sessionId |-> Sid("1"), deviceId |-> D1, ts |-> JNum(5)]),
     JObj([type |-> JStr(S_start), sessionId |-> Sid("3"), deviceId |-> D1, page |-> JStr(<<"/">>)]),
     JObj([type |-> JStr(S_start), sessionId |-> Sid("4"), deviceId |-> D1, deviceInfo |-> BigInfo])}

RaceRequests == {[method |-> "POST", text |-> BodyOf(v)] : v \in RacePayloads}

\* the collection after a beat for s1 and then a beat for s2, one at a time
AfterTwoBeats ==
    ReduceBeat(ReduceBeat(<<>>, Sid("1").str, D1.str, MaxClock), Sid("2").str, D1.str, MaxClock)

\* the overlapping requests meet an empty store or the collection of two sessions
InitRace ==
    /\ p = JNull
    /\ out = NoDoc
    /\ cleaned = <<>>
    /\ now = MaxClock
    /\ blobs = <<>>
    /\ posted = <<>>
    /\ upload = [phase |-> "idle"]
    /\ sessionsDoc \in {NoDoc, JArr(AfterTwoBeats)}
    /\ namesDoc = NoDoc
    /\ inflight = <<>>
    /\ resp = [status |-> 0]

NextRace ==
    \/ \E i \in Slots, req \in RaceRequests : RaceRead(i, req)
    \/ \E i \in Slots : RaceWrite(i)

SpecRace == InitRace /\ [][NextRace]_vars

(***************************************************************************)
(* Properties of sanitizePayload                                           *)
(***************************************************************************)
Sanitized == out # NoDoc

\* the arrays a section of the request carries, clamped and coerced
InNum(sec, k) == MapNum(clampArray(Get(Get(p, sec), k), MAX_POINTS))

InStr(sec, k, maxLen) == MapStr(clampArray(Get(Get(p, sec), k), MAX_POINTS), maxLen)

\* b is n - |a| copies of d followed by a
Backfilled(b, a, n, d) == b = Rep(d, n - Len(a)) \o a

\* C1: after sanitizePayload the arrays of each series (stake: labels, data,
\* moves, types; wd: labels, values, times; nw: times, usd, inj) all have one
\* length N, and N <= MAX_POINTS
C1_SeriesAligned ==
    Sanitized =>
        /\ \A k \in {"labels", "moves", "types"} : Len(out.stake[k]) = Len(out.stake.data)
        /\ \A k \in {"labels", "times"} : Len(out.wd[k]) = Len(out.wd.values)
        /\ \A k \in {"usd", "inj"} : Len(out.nw[k]) = Len(out.nw.times)
        /\ Len(out.stake.data) <= MAX_POINTS
        /\ Len(out.wd.values) <= MAX_POINTS
        /\ Len(out.nw.times) <= MAX_POINTS

\* C2: every non-primary array B of a series, labels included, that is shorter
\* than the primary array after clamping comes out as N - |B| defaults (0, or
\* "Stake update" for the stake labels and types) followed by B's coerced elements
C2_Backfill ==
    Sanitized =>
        /\ Truthy(Get(p, "stake")) =>
              LET n == Len(out.stake.data)
              IN /\ Len(InStr("stake", "labels", 48)) < n =>
                        Backfilled(out.stake.labels, InStr("stake", "labels", 48), n, S_StakeUpdate)
                 /\ Len(InNum("stake", "moves")) < n =>
                        Backfilled(out.stake.moves, InNum("stake", "moves"), n, 0)
                 /\ Len(InStr("stake", "types", 40)) < n =>
                        Backfilled(out.stake.types, InStr("stake", "types", 40), n, S_StakeUpdate)
        /\ Truthy(Get(p, "wd")) =>
              LET n == Len(out.wd.values)
              IN /\ Len(InStr("wd", "labels", 48)) < n =>
                        /\ Len(out.wd.labels) = n
                        /\ SubSeq(out.wd.labels, n - Len(InStr("wd", "labels", 48)) + 1, n) = InStr("wd", "labels", 48)
                 /\ Len(InNum("wd", "times")) < n =>
                        Backfilled(out.wd.times, InNum("wd", "times"), n, 0)
        /\ Truthy(Get(p, "nw")) =>
              LET n == Len(out.nw.times)
              IN /\ Len(InNum("nw", "usd")) < n => Backfilled(out.nw.usd, InNum("nw", "usd"), n, 0)
                 /\ Len(InNum("nw", "inj")) < n => Backfilled(out.nw.inj, InNum("nw", "inj"), n, 0)

\* the events of the request as sanitizeEvent returned them, in input order
CleanedIn == cleaned

\* the positions of the input at which the id of the event at i occurs
Occ(i) == {j \in 1..Len(CleanedIn) : CleanedIn[j].id = CleanedIn[i].id}

Max(S) == CHOOSE x \in S : \A y \in S : y <= x

Min(S) == CHOOSE x \in S : \A y \in S : x <= y

\* the last occurrence of every id: what deduplication retains
Retained == {CleanedIn[i] : i \in {j \in 1..Len(CleanedIn) : j = Max(Occ(j))}}

OutEvents == {out.events[i] : i \in 1..Len(out.events)}

\* C4: the events sanitizePayload returns are sorted by ascending ts, are at
\* most MAX_EVENTS, carry pairwise different ids, and are the retained events
\* less the oldest ones: no dropped event has a larger ts than a kept one
C4_EventsSortedBounded ==
    Sanitized =>
        /\ \A i \in 1..Len(out.events) - 1 : out.events[i].ts <= out.events[i + 1].ts
        /\ Len(out.events) <= MAX_EVENTS
        /\ \A i, j \in 1..Len(out.events) : out.events[i].id = out.events[j].id => i = j
        /\ OutEvents \subseteq Retained
        /\ Len(out.events) = IF Cardinality(Retained) > MAX_EVENTS THEN MAX_EVENTS ELSE Cardinality(Retained)
        /\ \A d \in Retained \ OutEvents : \A k \in OutEvents : d.ts <= k.ts

\* C4's case: more distinct events than MAX_EVENTS were supplied, and some were dropped
C4_Witness ==
    /\ Sanitized
    /\ Cardinality(Retained) > MAX_EVENTS
    /\ Len(out.events) = MAX_EVENTS
    /\ \E d \in Retained \ OutEvents : \E k \in OutEvents : d.ts < k.ts

\* the raw events of the request
RawIn == EventsOf(p)

\* the event stored under the id of the input event at position i, if any
StoredFor(i) == {e \in OutEvents : e.id = CleanedIn[i].id}

\* every stored event carries the field values of the last input event that
\* resolved to its id
LaterWins == \A e \in OutEvents : \E i \in 1..Len(CleanedIn) : i = Max(Occ(i)) /\ e = CleanedIn[i]

\* a raw event whose id does not depend on the clock: it carries an id, or a
\* ts that coerces to a non-zero number
Pinned(e) == Truthy(Get(e, "id")) \/ ~ReadsClock(e)

\* C5 as stated: any raw event submitted twice in one list resolves to one id
\* and so to at most one stored event, and the later submission's values win
C5_AnyEventTwiceOnce ==
    Sanitized =>
        /\ \A i, j \in 1..Len(RawIn) : RawIn[i] = RawIn[j] =>
              /\ CleanedIn[i].id = CleanedIn[j].id
              /\ Cardinality(StoredFor(i) \cup StoredFor(j)) <= 1
        /\ LaterWins

\* C5 amended: a raw event that carries an id or a valid non-zero ts, submitted
\* twice in one list, resolves to one id and so to at most one stored event
\* (exactly one when no more than MAX_EVENTS ids are retained); whenever two
\* submissions resolve to one id the later one's field values are stored
C5_PinnedEventTwiceOnce ==
    Sanitized =>
        /\ \A i, j \in 1..Len(RawIn) : (RawIn[i] = RawIn[j] /\ Pinned(RawIn[i])) =>
              /\ CleanedIn[i].id = CleanedIn[j].id
              /\ Cardinality(StoredFor(i)) <= 1
              /\ Cardinality(Retained) <= MAX_EVENTS => Cardinality(StoredFor(i)) = 1
        /\ LaterWins

\* C5's case: an event was submitted twice and is stored once, and another id
\* was submitted with two different sets of field values
C5_Witness ==
    /\ Sanitized
    /\ \E i, j \in 1..Len(RawIn) : i < j /\ RawIn[i] = RawIn[j] /\ Pinned(RawIn[i]) /\ Cardinality(StoredFor(i)) = 1
    /\ \E i, j \in 1..Len(RawIn) :
          /\ i < j /\ CleanedIn[i].id = CleanedIn[j].id /\ CleanedIn[i] # CleanedIn[j]
          /\ j = Max(Occ(j)) /\ CleanedIn[j] \in OutEvents

\* the position in the output of the stored event e
OutPos(e) == CHOOSE k \in 1..Len(out.events) : out.events[k] = e

\* stored events of equal ts, a before b in the output
TiedPairs ==
    {pr \in OutEvents \X OutEvents : pr[1].ts = pr[2].ts /\ OutPos(pr[1]) < OutPos(pr[2])}

FirstOcc(e) == Min({j \in 1..Len(CleanedIn) : CleanedIn[j].id = e.id})

LastOcc(e) == Max({j \in 1..Len(CleanedIn) : CleanedIn[j].id = e.id})

\* C6 as stated: stored events of equal ts are in the input order of the
\* occurrences deduplication retained, the last occurrence of each id
C6_TiesByLastOccurrence ==
    Sanitized => \A pr \in TiedPairs : LastOcc(pr[1]) < LastOcc(pr[2])

\* C6 amended: stored events of equal ts are in the input order of the first
\* occurrences of their ids (a resubmitted id keeps the place of its first
\* submission and takes the values of its last)
C6_TiesByFirstOccurrence ==
    Sanitized => \A pr \in TiedPairs : FirstOcc(pr[1]) < FirstOcc(pr[2])

\* C6's case: two stored events tie on ts and one of them was resubmitted
\* behind the other
C6_Witness ==
    /\ Sanitized
    /\ \E pr \in TiedPairs : FirstOcc(pr[1]) < FirstOcc(pr[2]) /\ LastOcc(pr[2]) < LastOcc(pr[1])

(***************************************************************************)
(* Properties of the snapshot endpoint                                     *)
(***************************************************************************)
\* C3: requests being handled one after the other, a GET for an address
\* returns the document sanitizePayload made of the body of the last POST for
\* that address answered 200, whole and nothing else (null before any such
\* POST), whatever was posted to other addresses in between
C3_GetReturnsLastPost ==
    (resp.status = 200 /\ resp.method = "GET") =>
        resp.data = IF resp.addr \in DOMAIN posted THEN DocToJson(posted[resp.addr]) ELSE JNull

\* C3's case: a GET answered with the snapshot of its address while another
\* address holds a different snapshot
C3_Witness ==
    /\ resp.status = 200
    /\ resp.method = "GET"
    /\ resp.addr \in DOMAIN posted
    /\ resp.data # JNull
    /\ \E b \in DOMAIN posted : b # resp.addr /\ posted[b] # posted[resp.addr]

(***************************************************************************)
(* Properties of the session reducer                                       *)
(***************************************************************************)
\* the stored collection of sessions
Sessions == IF JsonThrows(sessionsDoc) THEN <<>> ELSE readJsonOr(JArr(<<>>), sessionsDoc).arr

\* the last request was a start, a beat or an end and was answered 200
AcceptedEvent == resp.status = 200 /\ "sid" \in DOMAIN resp

SessionIds(a) == [k \in 1..Len(a) |-> a[k].sessionId]

\* C7: after every accepted start, beat or end whose record is in the
\* collection, the record's lastTs is max(its previous lastTs, the event's
\* ts), the event's ts for a new record: lastTs never decreases.
C7_LastTsIsMax ==
    [][AcceptedEvent' =>
          LET i == FindIndex(Sessions, resp'.sid)
              j == FindIndex(Sessions', resp'.sid)
          IN j # 0 =>
                Sessions'[j].lastTs = IF i = 0 THEN resp'.ts
                                      ELSE MathMax(Sessions[i].lastTs, resp'.ts)]_vars

\* C8: first end wins: a record whose endTs is not null keeps its endTs in
\* every step that keeps the record.
C8_FirstEndWins ==
    [][\A i \in 1..Len(Sessions) : \A j \in 1..Len(Sessions') :
          (Sessions[i].sessionId = Sessions'[j].sessionId /\ ~IsNull(Sessions[i].endTs))
              => Sessions'[j].endTs = Sessions[i].endTs]_vars

\* C9: an accepted event for a sessionId without a record leaves a record
\* for it with startTs = lastTs = ts and: beats 1 and endTs null after a
\* beat, endTs = ts and beats 0 after an end, beats 0 and endTs null after a
\* start.
C9_FreshEventCreates ==
    [][(AcceptedEvent' /\ FindIndex(Sessions, resp'.sid) = 0) =>
          LET j == FindIndex(Sessions', resp'.sid)
              r == Sessions'[j]
          IN /\ j # 0
             /\ r.startTs = resp'.ts
             /\ r.lastTs = resp'.ts
             /\ resp'.type = "beat" => (r.beats = 1 /\ r.endTs = JNull)
             /\ resp'.type = "end" => (r.beats = 0 /\ r.endTs = JNum(resp'.ts))
             /\ resp'.type = "start" => (r.beats = 0 /\ r.endTs = JNull)]_vars

\* a beat was accepted for session s2, which is never started, and its record
\* counts that one beat
C9_Witness ==
    /\ AcceptedEvent
    /\ resp.type = "beat"
    /\ resp.sid = Sid("2").str
    /\ \E k \in 1..Len(Sessions) :
          /\ Sessions[k].sessionId = resp.sid
          /\ Sessions[k].beats = 1
          /\ Sessions[k].startTs = resp.ts
          /\ Sessions[k].endTs = JNull

\* C10: after every accepted event the collection holds at most MAX_SESSIONS
\* records, and they are a suffix, in unchanged order, of the collection
\* before the event followed by the event's record when it is a new one: what
\* is removed is a prefix, the other sessions' records are unchanged, and a
\* new record is the last one.
C10_CapDropsOldest ==
    [][AcceptedEvent' =>
          LET fresh == FindIndex(Sessions, resp'.sid) = 0
              pre == IF fresh THEN Append(SessionIds(Sessions), resp'.sid) ELSE SessionIds(Sessions)
              d == Len(pre) - Len(Sessions')
          IN /\ Len(Sessions') <= MAX_SESSIONS
             /\ d >= 0
             /\ \A k \in 1..Len(Sessions') :
                   /\ Sessions'[k].sessionId = pre[d + k]
                   /\ Sessions'[k].sessionId # resp'.sid => Sessions'[k] = Sessions[d + k]
             /\ fresh => (Len(Sessions') > 0 /\ Sessions'[Len(Sessions')].sessionId = resp'.sid)]_vars

\* the cap removed a record and the collection is full
C10_Witness ==
    /\ AcceptedEvent
    /\ resp.capped > 0
    /\ Len(Sessions) = MAX_SESSIONS
    /\ Sessions[Len(Sessions)].sessionId = resp.sid

(***************************************************************************)
(* Properties of the request checks of the snapshot endpoint               *)
(***************************************************************************)
\* the last request was answered (a read of the body that never returns leaves no answer)
Answered == "method" \in DOMAIN resp

\* C11: every POST (to a valid address) whose body is longer than
\* MAX_BODY_BYTES is answered 413 and leaves the store as it was, whether the
\* body is streamed or attached to the request.
C11_OversizedRejected ==
    [][(Answered' /\ resp'.method = "POST" /\ resp'.valid /\ resp'.bytes > MAX_BODY_BYTES)
          => (resp'.status = 413 /\ blobs' = blobs)]_vars

\* C14 as stated: a method other than GET, POST and OPTIONS is answered 405
\* and OPTIONS 204, whatever the address.
C14_405ForAnyAddress ==
    Answered =>
        /\ resp.method \notin {"GET", "POST", "OPTIONS"} => resp.status = 405
        /\ resp.method = "OPTIONS" => resp.status = 204

\* C14: OPTIONS is answered 204 whatever the address; a method other than
\* GET, POST and OPTIONS is answered 405 when the address is valid and 400
\* when it is invalid or missing.
C14_405ForValidAddress ==
    Answered =>
        /\ resp.method \notin {"GET", "POST", "OPTIONS"} => resp.status = (IF resp.valid THEN 405 ELSE 400)
        /\ resp.method = "OPTIONS" => resp.status = 204

\* a PUT to a valid address was answered 405
C14_Witness == Answered /\ resp.method = "PUT" /\ resp.valid /\ resp.status = 405

(***************************************************************************)
(* Properties of the request checks of the tracking endpoint               *)
(***************************************************************************)
\* the payload lacks a field its type requires, or has no known type
LacksField(payload) ==
    IF Get(payload, "type") = JStr(S_name)
    THEN \/ ~Truthy(Get(payload, "deviceId"))
         \/ Trim(ToStringJS(Or(Get(payload, "name"), JStr(<<>>)))) = <<>>
    ELSE \/ IdOf(payload, "sessionId") = <<>>
         \/ IdOf(payload, "deviceId") = <<>>
         \/ Get(payload, "type") \notin {JStr(S_start), JStr(S_beat), JStr(S_end)}

\* a POST the taxonomy counts as a validation error: its body is empty, too
\* long or not JSON, a required field is missing, or its type is unknown
IsValidationError(req) ==
    /\ req.method = "POST"
    /\ \/ req.text.len = 0
       \/ req.text.len > MAX_BODY_BYTES
       \/ IF Parses(req.text) THEN LacksField(req.text.json) ELSE TRUE

\* C12: a POST with a validation error is answered 400 or 413, never 5xx
\* (stated for a store whose documents are JSON).
C12_ValidationIs4xx ==
    ("req" \in DOMAIN resp /\ IsValidationError(resp.req)
        /\ ~JsonThrows(sessionsDoc) /\ ~JsonThrows(namesDoc))
        => resp.status \in {400, 413}

\* C13: with a stored document that is not JSON, a GET is answered 200 and
\* no request is answered with the error of reading that document.
C13_CorruptIsAbsent ==
    ("req" \in DOMAIN resp /\ (JsonThrows(sessionsDoc) \/ JsonThrows(namesDoc)))
        => /\ resp.req.method = "GET" => resp.status = 200
           /\ resp.status = 500 => resp.error # "r.json"

(***************************************************************************)
(* Properties of overlapping requests to the tracking endpoint             *)
(***************************************************************************)
\* C15: the read-modify-write is not atomic, the last write wins: the
\* document a request answered 200 leaves is the reducer, the cap and
\* writeJson applied to the collection that request read, whatever was
\* written since (so that an update written in between is lost).
C15_LastWriteWins ==
    [][\A i \in Slots :
          (Reading(i) /\ Done(i)' /\ inflight'[i].status = 200) =>
              LET payload == inflight[i].req.text.json
              IN sessionsDoc' = JArr(writeJson(Cap(Reduce(inflight[i].snap, payload, TsOf(payload, now).num))))]_vars

\* two beats for session s1 overlapped, both were answered 200, and the
\* stored record counts one beat
C15_Witness ==
    /\ \A i \in {1, 2} :
          /\ Done(i)
          /\ inflight[i].status = 200
          /\ Get(inflight[i].req.text.json, "type") = JStr(S_beat)
          /\ Get(inflight[i].req.text.json, "sessionId") = Sid("1")
    /\ \E k \in 1..Len(Sessions) : Sessions[k].sessionId = Sid("1").str /\ Sessions[k].beats = 1

\* a sessionId that no other record of the collection has
NoDuplicate(a) == \A i, j \in 1..Len(a) : i # j => a[i].sessionId # a[j].sessionId

\* C18: in the stored sessions document no two records share a sessionId,
\* whether the events are applied one at a time or overlap.
C18_UniqueSessionId == NoDuplicate(Sessions)

\* two overlapping requests were answered 200, the second write went through
\* the cap and the collection holds MAX_SESSIONS records
C18_Witness ==
    /\ \A i \in {1, 2} : Done(i) /\ inflight[i].status = 200
    /\ AcceptedEvent
    /\ resp.capped > 0
    /\ Len(Sessions) = MAX_SESSIONS

(***************************************************************************)
(* More properties of sanitizePayload                                      *)
(***************************************************************************)
\* C16: after sanitizePayload no array of a series is longer than the
\* series' primary array (data, values, times), an empty primary array
\* included.
C16_TruncatedToPrimary ==
    Sanitized =>
        /\ \A k \in {"labels", "moves", "types"} : Len(out.stake[k]) <= Len(out.stake.data)
        /\ \A k \in {"labels", "times"} : Len(out.wd[k]) <= Len(out.wd.values)
        /\ \A k \in {"usd", "inj"} : Len(out.nw[k]) <= Len(out.nw.times)

(***************************************************************************)
(* Properties of readRawBody                                               *)
(***************************************************************************)
\* C17: once the accumulated body of a streamed POST has passed
\* MAX_BODY_BYTES, the request is eventually answered 413.
C17_AbortAnswered ==
    (upload.phase = "reading" /\ upload.tooLarge) ~> (upload.phase = "answered" /\ resp.status = 413)

(***************************************************************************)
(* Properties of writeJson in the session path                             *)
(***************************************************************************)
\* the stored document holds the record of the session of the event answered
\* by resp' with the update applied: one more beat after a beat, an end time
\* and an end reason after an end, lastTs not before ts
StoredUpdated ==
    LET i == FindIndex(Sessions, resp'.sid)
    IN \E k \in 1..Len(Sessions') :
          /\ Sessions'[k].sessionId = resp'.sid
          /\ resp'.type = "beat" => Sessions'[k].beats = (IF i = 0 THEN 0 ELSE Sessions[i].beats) + 1
          /\ resp'.type = "end" => (~IsNull(Sessions'[k].endTs) /\ IsStr(Sessions'[k].endReason))
          /\ resp'.type # "start" => Sessions'[k].lastTs >= resp'.ts

\* C19 as stated: after every start, beat or end answered 200 the stored
\* document holds the record of the event's session with the update applied,
\* also when writeJson goes through its size fallback.
C19_UpdateStored == [][AcceptedEvent' => StoredUpdated]_vars

\* C19: after every start, beat or end answered 200 the stored document
\* holds the record of the event's session with the update applied, unless
\* the record was among the oldest ones that the cap and the size fallback
\* removed; a record the event created is always stored.
C19_UpdateStoredUnlessTrimmed ==
    [][AcceptedEvent' =>
          LET i == FindIndex(Sessions, resp'.sid)
          IN (i = 0 \/ i > resp'.capped + resp'.trimmed) => StoredUpdated]_vars

\* the write went through the size fallback, which removed a record, and the
\* record of the event's session is stored
C19_Witness ==
    /\ AcceptedEvent
    /\ resp.trimmed > 0
    /\ \E k \in 1..Len(Sessions) : Sessions[k].sessionId = resp.sid

(***************************************************************************)
(* Properties of a snapshot posted back                                    *)
(***************************************************************************)
\* two documents that differ at most in the write timestamp t
SameButT(a, b) == [a EXCEPT !.t = 0] = [b EXCEPT !.t = 0]

\* the document holds no event with an empty id, kind, title or status (the
\* payload it was made from had no event in which one of these was truthy
\* with the empty string as its String())
Plain(doc) ==
    \A e \in {doc.events[i] : i \in 1..Len(doc.events)} :
        e.id # <<>> /\ e.kind # <<>> /\ e.title # <<>> /\ e.status # <<>>

\* C20 as stated: sanitizePayload applied to its own output returns the same
\* document but for t, for every payload.
C20_Idempotent ==
    [][(out # NoDoc /\ ReadBack') => SameButT(out', out)]_vars

\* C20: sanitizePayload applied to its own output returns the same document
\* but for t, when every event of that output has a non-empty id, kind,
\* title and status.
C20_IdempotentOnPlain ==
    [][(out # NoDoc /\ ReadBack' /\ Plain(out)) => SameButT(out', out)]_vars

\* a snapshot of two or more events was posted back and stored at a later time
C20_Witness ==
    /\ ReadBack
    /\ Len(out.events) >= 2
    /\ out.t # p.obj.t.num
    /\ Plain(out)

=============================================================================
